---- MODULE Spec2Model ----
(***************************************************************************)
(* A model of gif_rs (src/src/main.rs): the Duration value type (parsing,  *)
(* formatting, conversion from and to seconds) and the run of main, which  *)
(* probes a video file, asks the user for a time and frame range and calls *)
(* the external encoder three times.                                       *)
(*                                                                         *)
(* Text is a sequence of one-character strings.  An Option or a Result's   *)
(* payload is a sequence of length 0 (None) or 1 (Some).  A fractional     *)
(* seconds value (f64) is an integer number of tenths of a second; fps and *)
(* frame counts (f32) are exact rationals <<numerator, denominator>>: the  *)
(* sampled values stay far below 2^24, where f32 arithmetic on them is     *)
(* exact.  u32 values stay below 2^31 within the bounds, so neither the    *)
(* saturation of `as u32` at 2^32-1 nor the overflow of u32 arithmetic is  *)
(* reached by any modelled input.                                          *)
(***************************************************************************)
EXTENDS Integers, Sequences, FiniteSets, TLC

VARIABLES
    dIn,          \* the input of a Duration operation (pure-function specifications)
    dOut,         \* its result: <<>> before the operation, <<r>> after it
    pc,           \* main: the statement about to be executed
    exit,         \* main: "running", or how the process ended
    argc,         \* main: args.len()
    info,         \* main: the ProbeInfo ffprobe printed, <<>> before the probe
    resolution,   \* main: <<width>> once probed
    duration,     \* main: <<Duration>> once probed
    fps,          \* main: <<rational>> once probed
    start_input,  \* main: <<text>> the user typed for the start time
    end_input,    \* main: <<text>> the user typed for the end time
    start_time,   \* main: <<Duration>>
    end_time,     \* main: <<Duration>>
    framecount,   \* main: <<rational>>
    start_frame,  \* main: <<integer>>
    end_frame,    \* main: <<rational>>
    files,        \* the file system: which of the run's artifacts exist
    log           \* the steps executed so far, each with its outcome

durVars == <<dIn, dOut>>
planVars == <<resolution, duration, fps, start_input, end_input, start_time,
              end_time, framecount, start_frame, end_frame>>
runVars == <<pc, exit, argc, info, files, log>>
vars == <<dIn, dOut, pc, exit, argc, info, resolution, duration, fps,
          start_input, end_input, start_time, end_time, framecount,
          start_frame, end_frame, files, log>>

\* Bounds of the model.
MaxLen == 6
MaxH == 3
MaxComp == 61
MaxSeconds == 7325

(***************************************************************************)
(* Text and numbers                                                        *)
(***************************************************************************)
Digits == <<"0", "1", "2", "3", "4", "5", "6", "7", "8", "9">>

IsDigit(c) == \E i \in 1..10 : Digits[i] = c

DigitVal(c) == (CHOOSE i \in 1..10 : Digits[i] = c) - 1

RECURSIVE DigitsValue(_)
DigitsValue(ds) ==
    IF Len(ds) = 0 THEN 0
    ELSE 10 * DigitsValue(SubSeq(ds, 1, Len(ds) - 1)) + DigitVal(ds[Len(ds)])

RECURSIVE Pow10(_)
Pow10(n) == IF n = 0 THEN 1 ELSE 10 * Pow10(n - 1)

\* u32's Display: plain decimal, no sign, no padding.
RECURSIVE ToDigits(_)
ToDigits(n) ==
    IF n < 10 THEN <<Digits[n + 1]>>
    ELSE ToDigits(n \div 10) \o <<Digits[(n % 10) + 1]>>

\* str::parse::<u32>: an optional leading '+', then one or more decimal
\* digits; '-' is not accepted for an unsigned type.  (A value above
\* 2^32-1 is an error too: it needs ten digits, more than any modelled text.)
ParseU32(src) ==
    IF Len(src) = 0 THEN <<>>
    ELSE IF src[1] \in {"+", "-"} /\ Len(src) = 1 THEN <<>>
    ELSE LET ds == IF src[1] = "+" THEN Tail(src) ELSE src
         IN  IF \A i \in 1..Len(ds) : IsDigit(ds[i])
             THEN <<DigitsValue(ds)>>
             ELSE <<>>

\* str::split(sep): the pieces between the separators; "" gives one empty piece.
RECURSIVE Split(_, _)
Split(s, sep) ==
    IF \A i \in 1..Len(s) : s[i] # sep THEN <<s>>
    ELSE LET k == CHOOSE i \in 1..Len(s) :
                      s[i] = sep /\ \A j \in 1..(i - 1) : s[j] # sep
         IN  <<SubSeq(s, 1, k - 1)>> \o Split(SubSeq(s, k + 1, Len(s)), sep)

(***************************************************************************)
(* Duration                                                                *)
(***************************************************************************)
Dur(h, m, s) == [h |-> h, m |-> m, s |-> s]

Ok(v) == [ok |-> TRUE, err |-> "", val |-> <<v>>]
Err(msg) == [ok |-> FALSE, err |-> msg, val |-> <<>>]

\* A mutant of Format: the hours are left out.
Format_NoHours(d) == ToDigits(d.m) \o <<":">> \o ToDigits(d.s)

\* impl fmt::Display for Duration
Format(d) ==
    ToDigits(d.h) \o <<":">> \o ToDigits(d.m) \o <<":">> \o ToDigits(d.s)

\* A mutant of from_str: two parts are read as hours:minutes.
from_str_TwoAsHM(input) ==
    LET parts == Split(input, ":")
        P(i) == ParseU32(parts[i])
    IN  CASE Len(parts) = 1 ->
               IF P(1) = <<>> THEN Err("Failed to parse seconds")
               ELSE Ok(Dur(0, 0, P(1)[1]))
          [] Len(parts) = 2 ->
               IF P(1) = <<>> THEN Err("Failed to parse minutes")
               ELSE IF P(2) = <<>> THEN Err("Failed to parse seconds")
               ELSE Ok(Dur(P(1)[1], P(2)[1], 0))
          [] Len(parts) = 3 ->
               IF P(1) = <<>> THEN Err("Failed to parse hours")
               ELSE IF P(2) = <<>> THEN Err("Failed to parse minutes")
               ELSE IF P(3) = <<>> THEN Err("Failed to parse seconds")
               ELSE Ok(Dur(P(1)[1], P(2)[1], P(3)[1]))
          [] OTHER -> Err("Invalid duration format")

\* Duration::from_str
from_str(input) ==
    LET parts == Split(input, ":")
        P(i) == ParseU32(parts[i])
    IN  CASE Len(parts) = 1 ->
               IF P(1) = <<>> THEN Err("Failed to parse seconds")
               ELSE Ok(Dur(0, 0, P(1)[1]))
          [] Len(parts) = 2 ->
               IF P(1) = <<>> THEN Err("Failed to parse minutes")
               ELSE IF P(2) = <<>> THEN Err("Failed to parse seconds")
               ELSE Ok(Dur(0, P(1)[1], P(2)[1]))
          [] Len(parts) = 3 ->
               IF P(1) = <<>> THEN Err("Failed to parse hours")
               ELSE IF P(2) = <<>> THEN Err("Failed to parse minutes")
               ELSE IF P(3) = <<>> THEN Err("Failed to parse seconds")
               ELSE Ok(Dur(P(1)[1], P(2)[1], P(3)[1]))
          [] OTHER -> Err("Invalid duration format")

\* f64::floor of a value given in tenths of a second.
Floor(tenths) == tenths \div 10

\* `as u32` of a whole f64: a negative value becomes 0.
AsU32(v) == IF v < 0 THEN 0 ELSE v

\* A mutant of from_seconds: rounds to the nearest second.
from_seconds_Round(tenths) ==
    LET total_seconds == AsU32(Floor(tenths + 5))
    IN  Dur(total_seconds \div 3600,
            (total_seconds % 3600) \div 60,
            total_seconds % 60)

\* Duration::from_seconds
from_seconds(tenths) ==
    LET total_seconds == AsU32(Floor(tenths))
    IN  Dur(total_seconds \div 3600,
            (total_seconds % 3600) \div 60,
            total_seconds % 60)

\* Duration::to_seconds
to_seconds(d) == d.h * 3600 * d.m * 60 + d.s

(***************************************************************************)
(* Console input, numbers typed by the user, rationals                     *)
(***************************************************************************)
IsSpace(c) == c \in {" ", "\n"}

\* str::trim
Trim(s) ==
    LET keep == { i \in 1..Len(s) : ~IsSpace(s[i]) }
    IN  IF keep = {} THEN <<>>
        ELSE LET lo == CHOOSE i \in keep : \A j \in keep : i <= j
                 hi == CHOOSE i \in keep : \A j \in keep : j <= i
             IN  SubSeq(s, lo, hi)

\* str::parse::<i32>: an optional sign, then one or more decimal digits.
ParseI32(src) ==
    IF Len(src) = 0 THEN <<>>
    ELSE IF src[1] \in {"+", "-"} /\ Len(src) = 1 THEN <<>>
    ELSE LET ds == IF src[1] \in {"+", "-"} THEN Tail(src) ELSE src
         IN  IF \A i \in 1..Len(ds) : IsDigit(ds[i])
             THEN <<IF src[1] = "-" THEN 0 - DigitsValue(ds) ELSE DigitsValue(ds)>>
             ELSE <<>>

\* str::parse::<f32> of a plain decimal: an optional sign, digits, at most
\* one '.', digits; at least one digit.  The value is <<numerator,
\* denominator>>, the denominator a power of ten.  (Exponents, "inf" and "nan" are not among the sampled texts.)
ParseF32(src) ==
    LET body == IF Len(src) > 0 /\ src[1] \in {"+", "-"} THEN Tail(src) ELSE src
        dots == { i \in 1..Len(body) : body[i] = "." }
        ds == SelectSeq(body, LAMBDA c : c # ".")
        nfrac == IF dots = {} THEN 0 ELSE Len(body) - (CHOOSE i \in dots : TRUE)
        den == Pow10(nfrac)
    IN  IF \/ Cardinality(dots) > 1
           \/ Len(ds) = 0
           \/ \E i \in 1..Len(ds) : ~IsDigit(ds[i])
        THEN <<>>
        ELSE <<<<(IF src[1] = "-" THEN 0 - DigitsValue(ds) ELSE DigitsValue(ds)), den>>>>

\* f32 division and multiplication, exact on the sampled values.
RatDiv(a, b) == <<a[1] * b[2], a[2] * b[1]>>
RatMulInt(k, a) == <<k * a[1], a[2]>>
RatEq(a, b) == a[1] * b[2] = b[1] * a[2]

(***************************************************************************)
(* get_file_info                                                           *)
(***************************************************************************)
Stream(ct, w, h, r) == [codec_type |-> ct, width |-> w, height |-> h, r_frame_rate |-> r]

\* A mutant of FindVideo: the first stream, whatever its codec type.
FindVideo_First(streams) == IF Len(streams) = 0 THEN <<>> ELSE <<streams[1]>>

\* info.streams.iter().find(|s| s.codec_type == "video")
FindVideo(streams) ==
    LET idx == { i \in 1..Len(streams) : streams[i].codec_type = "video" }
    IN  IF idx = {} THEN <<>>
        ELSE <<streams[CHOOSE i \in idx : \A j \in idx : i <= j]>>

\* What ffprobe did: spawned or not; its stdout as JSON of the ProbeInfo
\* shape (json = <<info>>) or as anything else (json = <<>>).
\* format.duration is <<tenths>> when its text is a float, <<>> when not.
get_file_info(probe) ==
    IF ~probe.spawned THEN Err("Failed to execute ffprobe")
    ELSE IF probe.json = <<>> THEN Err("Failed to parse ffprobe output")
    ELSE LET pinfo == probe.json[1]
             found == FindVideo(pinfo.streams)
         IN  IF found = <<>> THEN Err("No video stream found")
             ELSE LET stream == found[1]
                      fps_parts == Split(stream.r_frame_rate, "/")
                  IN  IF stream.width = <<>> THEN Err("Width not found")
                      ELSE IF stream.height = <<>> THEN Err("Height not found")
                      ELSE IF pinfo.format_duration = <<>> THEN Err("Invalid duration")
                      ELSE IF Len(fps_parts) # 2 THEN Err("Invalid FPS format")
                      ELSE IF ParseF32(fps_parts[1]) = <<>> THEN Err("Invalid FPS numerator")
                      ELSE IF ParseF32(fps_parts[2]) = <<>> THEN Err("Invalid FPS denominator")
                      ELSE Ok([resolution |-> [width |-> stream.width[1],
                                               height |-> stream.height[1]],
                               duration |-> from_seconds(pinfo.format_duration[1]),
                               fps |-> RatDiv(ParseF32(fps_parts[1])[1],
                                              ParseF32(fps_parts[2])[1])])

\* A mutant of check_command_success: the exit status is not looked at.
check_command_success_Ignored(status) == Ok("unit")

\* check_command_success
check_command_success(status) ==
    IF status # "exit0" THEN Err("Command failed") ELSE Ok("unit")

(***************************************************************************)
(* main                                                                    *)
(***************************************************************************)
\* A mutant of ProgramOrder: the frame numbers are asked for after the
\* palette has been generated.
ProgramOrder_FramesLate ==
    <<"args", "probe", "ask_start", "ask_end", "ask_fps", "framecount",
      "ask_width", "mkdir", "thumbnails", "palette", "ask_start_frame",
      "ask_end_frame", "encode", "rm_palette", "rm_dir", "report">>

\* The statements of main, in the order of the source.
ProgramOrder ==
    <<"args", "probe", "ask_start", "ask_end", "ask_fps", "framecount",
      "ask_width", "mkdir", "thumbnails", "ask_start_frame", "ask_end_frame",
      "palette", "encode", "rm_palette", "rm_dir", "report">>

After(step) ==
    LET i == CHOOSE k \in 1..Len(ProgramOrder) : ProgramOrder[k] = step
    IN  IF i = Len(ProgramOrder) THEN "exit" ELSE ProgramOrder[i + 1]

\* The arguments an encoder call is given: -ss, -to and the values formatted
\* into its filter graph.  The thumbnail call scales to 600 and trims no frames.
EncoderArgs(step) ==
    [ss |-> IF start_time = <<>> THEN <<>> ELSE <<Format(start_time[1])>>,
     to |-> IF end_time = <<>> THEN <<>> ELSE <<Format(end_time[1])>>,
     fps |-> fps,
     start_frame |-> IF step = "thumbnails" THEN <<>> ELSE start_frame,
     end_frame |-> IF step = "thumbnails" THEN <<>> ELSE end_frame,
     scale |-> IF step = "thumbnails" THEN <<600>>
               ELSE IF resolution = <<>> THEN <<>>
               ELSE <<resolution[1].width>>]

Entry(step, res) ==
    [step |-> step, res |-> res,
     args |-> IF step \in {"thumbnails", "palette", "encode"}
              THEN <<EncoderArgs(step)>> ELSE <<>>]

\* The statement `step` went through: main goes on with the next one.
Continue(step, res) ==
    /\ log' = Append(log, Entry(step, res))
    /\ pc' = After(step)
    /\ exit' = exit

\* The statement `step` ended the process: a return from main ("success",
\* "usage": exit code 0; "error": an Err returned, exit code 1) or a panic
\* (exit code 101).
Leave(step, res, how) ==
    /\ log' = Append(log, Entry(step, res))
    /\ pc' = "exit"
    /\ exit' = how

ExitCode(how) ==
    CASE how \in {"success", "usage"} -> 0
      [] how = "error" -> 1
      [] how = "panic" -> 101

(***************************************************************************)
(* The state before main has executed anything.                            *)
(***************************************************************************)
PlanUnset ==
    /\ resolution = <<>> /\ duration = <<>> /\ fps = <<>>
    /\ start_input = <<>> /\ end_input = <<>>
    /\ start_time = <<>> /\ end_time = <<>> /\ framecount = <<>>
    /\ start_frame = <<>> /\ end_frame = <<>>

NotStarted ==
    /\ pc = "args" /\ exit = "running" /\ argc = 2
    /\ info = <<>> /\ files = {} /\ log = <<>>
    /\ PlanUnset

(***************************************************************************)
(* The Duration operations, each applied to every input of a bounded set.  *)
(***************************************************************************)
Alphabet == {"0", "7", ":", "+", "x"}

SpecExamples ==
    { <<"9", "0">>,
      <<"1", ":", "0", "5">>,
      <<"2", ":", "0", "0", ":", "3", "0">>,
      <<"1", ":", "2", ":", "3", ":", "4">>,
      <<"-", "0">>,
      <<" ", "5">>,
      <<"+", "1", "2", ":", "0", "0", "7">> }

Texts == (UNION { [1..n -> Alphabet] : n \in 0..MaxLen }) \cup SpecExamples

Durations == { Dur(h, m, s) : h \in 0..MaxH, m \in 0..MaxComp, s \in 0..MaxComp }

\* Seconds values in tenths: every whole second from -1 to MaxSeconds, with
\* fractions .0, .5 and .9.
Tenths == { 10 * w + f : w \in (-1)..MaxSeconds, f \in {0, 5, 9} }

ApplyFromStr ==
    /\ dOut = <<>>
    /\ dOut' = <<from_str(dIn)>>
    /\ UNCHANGED <<dIn, runVars, planVars>>

ApplyFormat ==
    /\ dOut = <<>>
    /\ dOut' = <<Format(dIn)>>
    /\ UNCHANGED <<dIn, runVars, planVars>>

ApplyFromStrToFormatted ==
    /\ Len(dOut) = 1
    /\ dOut' = <<dOut[1], from_str(dOut[1])>>
    /\ UNCHANGED <<dIn, runVars, planVars>>

ApplyFromSeconds ==
    /\ dOut = <<>>
    /\ dOut' = <<from_seconds(dIn)>>
    /\ UNCHANGED <<dIn, runVars, planVars>>

ApplyToSeconds ==
    /\ dOut = <<>>
    /\ dOut' = <<to_seconds(dIn)>>
    /\ UNCHANGED <<dIn, runVars, planVars>>

InitParse == dIn \in Texts /\ dOut = <<>> /\ NotStarted
SpecParse == InitParse /\ [][ApplyFromStr]_vars

InitRoundTrip == dIn \in Durations /\ dOut = <<>> /\ NotStarted
NextRoundTrip == ApplyFormat \/ ApplyFromStrToFormatted
SpecRoundTrip == InitRoundTrip /\ [][NextRoundTrip]_vars

InitFromSeconds == dIn \in Tenths /\ dOut = <<>> /\ NotStarted
SpecFromSeconds == InitFromSeconds /\ [][ApplyFromSeconds]_vars

InitToSeconds == dIn \in Durations /\ dOut = <<>> /\ NotStarted
SpecToSeconds == InitToSeconds /\ [][ApplyToSeconds]_vars

(***************************************************************************)
(* What the claims say of a text, stated without the model's operators.    *)
(***************************************************************************)
Colons(t) == { i \in 1..Len(t) : t[i] = ":" }

NParts(t) == Cardinality(Colons(t)) + 1

\* The k-th colon-separated part of t (1 <= k <= NParts(t)).
PartOf(t, k) ==
    LET before(i) == Cardinality({ j \in Colons(t) : j < i })
        idx == { i \in 1..Len(t) : t[i] # ":" /\ before(i) = k - 1 }
    IN  IF idx = {} THEN <<>>
        ELSE LET lo == CHOOSE i \in idx : \A j \in idx : i <= j
                 hi == CHOOSE i \in idx : \A j \in idx : j <= i
             IN  [i \in 1..(hi - lo + 1) |-> t[lo + i - 1]]

RECURSIVE SumTo(_, _)
SumTo(f, n) == IF n = 0 THEN 0 ELSE f[n] + SumTo(f, n - 1)

\* A part denotes a non-negative integer: decimal digits, at least one,
\* after an optional plus sign.
Unsigned(p) == IF Len(p) > 0 /\ p[1] = "+" THEN Tail(p) ELSE p

IsNonNegInt(p) ==
    /\ Len(Unsigned(p)) > 0
    /\ \A i \in 1..Len(Unsigned(p)) :
           \E v \in 0..9 : Unsigned(p)[i] = Digits[v + 1]

NumberOf(p) ==
    LET u == Unsigned(p)
        n == Len(u)
    IN  SumTo([i \in 1..n |-> DigitVal(u[i]) * Pow10(n - i)], n)

\* C2: from_str decides by the number of colon-separated parts: one part p
\* gives {0,0,p}, two give {0,p0,p1}, three give {p0,p1,p2}; four or more
\* parts are an error; and with one to three parts, a part that is not a
\* non-negative integer (an empty part included) is an error.
C2_ParseByPartCount ==
    dOut # <<>> =>
        LET r == dOut[1]
            n == NParts(dIn)
            N(k) == NumberOf(PartOf(dIn, k))
            good == \A k \in 1..n : IsNonNegInt(PartOf(dIn, k))
        IN  /\ n >= 4 => ~r.ok /\ r.val = <<>>
            /\ (n <= 3 /\ ~good) => ~r.ok /\ r.val = <<>>
            /\ (n = 1 /\ good) => r.ok /\ r.val = <<Dur(0, 0, N(1))>>
            /\ (n = 2 /\ good) => r.ok /\ r.val = <<Dur(0, N(1), N(2))>>
            /\ (n = 3 /\ good) => r.ok /\ r.val = <<Dur(N(1), N(2), N(3))>>
            /\ dIn = <<"9", "0">> => r.val = <<Dur(0, 0, 90)>>
            /\ dIn = <<"1", ":", "0", "5">> => r.val = <<Dur(0, 1, 5)>>
            /\ dIn = <<"2", ":", "0", "0", ":", "3", "0">> => r.val = <<Dur(2, 0, 30)>>
            /\ dIn = <<"1", ":", "2", ":", "3", ":", "4">> => ~r.ok

C2_Witness ==
    /\ dIn = <<"7", ":", "0", "7">>
    /\ dOut = <<Ok(Dur(0, 7, 7))>>

NumDigits(n) == IF n < 10 THEN 1 ELSE IF n < 100 THEN 2 ELSE IF n < 1000 THEN 3 ELSE 4

\* C3: formatting a Duration with m and s in 0..59 as H:M:S (no padding)
\* and parsing the text gives back the same h, m and s.
C3_RoundTrip ==
    (Len(dOut) = 2 /\ dIn.m \in 0..59 /\ dIn.s \in 0..59) =>
        /\ NParts(dOut[1]) = 3
        /\ Len(dOut[1]) = NumDigits(dIn.h) + NumDigits(dIn.m) + NumDigits(dIn.s) + 2
        /\ dOut[2].ok
        /\ dOut[2].val[1].h = dIn.h
        /\ dOut[2].val[1].m = dIn.m
        /\ dOut[2].val[1].s = dIn.s

C3_Witness ==
    /\ dIn = Dur(2, 0, 30)
    /\ Len(dOut) = 2
    /\ dOut[1] = <<"2", ":", "0", ":", "3", "0">>
    /\ dOut[2] = Ok(Dur(2, 0, 30))

\* C4: from_seconds of a non-negative x takes total = floor(x) and returns
\* the h, m, s with h*3600 + m*60 + s = total and m, s in 0..59;
\* 3661.9 gives {1,1,1}.
C4_FromSecondsFloors ==
    (dOut # <<>> /\ dIn >= 0) =>
        LET r == dOut[1]
            total == r.h * 3600 + r.m * 60 + r.s
        IN  /\ 10 * total <= dIn /\ dIn < 10 * total + 10
            /\ r.h >= 0 /\ r.m \in 0..59 /\ r.s \in 0..59
            /\ dIn = 36619 => r = Dur(1, 1, 1)

C4_Witness == dIn = 36619 /\ dOut = <<Dur(1, 1, 1)>>

\* C1: to_seconds returns h*3600 + m*60 + s; to_seconds({1,30,15}) = 5415.
C1_ToSecondsAdditive ==
    dOut # <<>> => dOut[1] = dIn.h * 3600 + dIn.m * 60 + dIn.s

(***************************************************************************)
(* main, statement by statement.  What the program does not decide (the    *)
(* arguments, ffprobe's answer, the lines typed, the outcome of a file     *)
(* system call or of an encoder run) is chosen with \E.                    *)
(***************************************************************************)
AudioStream == Stream("audio", <<>>, <<>>, <<"0", "/", "0">>)
DataStream == Stream("data", <<320>>, <<240>>, <<"2", "5", "/", "1">>)
Video30 == Stream("video", <<1920>>, <<1080>>, <<"3", "0", "/", "1">>)
Video7_5 == Stream("video", <<640>>, <<360>>, <<"1", "5", "/", "2">>)

StreamLists ==
    { <<>>, <<AudioStream>>, <<DataStream>>, <<DataStream, AudioStream>>,
      <<Video30>>, <<AudioStream, Video30>>, <<Video7_5, Video30>>,
      <<Stream("video", <<>>, <<1080>>, <<"3", "0", "/", "1">>)>>,
      <<Stream("video", <<1920>>, <<>>, <<"3", "0", "/", "1">>)>>,
      <<Stream("video", <<1920>>, <<1080>>, <<"3", "0">>)>>,
      <<Stream("video", <<1920>>, <<1080>>, <<"x", "/", "1">>)>>,
      <<Stream("video", <<1920>>, <<1080>>, <<"3", "0", "/", "x">>)>> }

\* format.duration: 10.0 s, 70.5 s, 3661.9 s, or text that is no float.
FormatDurations == { <<100>>, <<705>>, <<36619>>, <<>> }

ProbeOutputs ==
    { [spawned |-> FALSE, json |-> <<>>], [spawned |-> TRUE, json |-> <<>>] }
    \cup { [spawned |-> TRUE,
            json |-> <<[streams |-> s, format_duration |-> d]>>] :
           s \in StreamLists, d \in FormatDurations }

\* Lines typed at the time prompts (<<>> is end of input).
TimeLines ==
    { <<>>, <<"\n">>, <<"5", "\n">>, <<" ", "1", ":", "0", "5", "\n">>,
      <<"0", ":", "1", ":", "1", "0", "\n">>, <<"x", "\n">>,
      <<"1", ":", "2", ":", "3", ":", "4", "\n">> }

\* Lines typed at the frame prompts.
FrameLines ==
    { <<"\n">>, <<"3", "\n">>, <<"-", "2", "\n">>, <<"4", ".", "5", "\n">>,
      <<"x", "\n">> }

ReadOutcomes == {"ok", "err"}

Init ==
    /\ dIn = <<>> /\ dOut = <<>>
    /\ pc = "args" /\ exit = "running"
    /\ argc \in 1..3
    /\ info = <<>>
    /\ files \in { {}, {"output_frames"} }
    /\ log = <<>>
    /\ PlanUnset

\* main, lines 63-68
CheckArgs ==
    /\ pc = "args"
    /\ IF argc # 2
       THEN Leave("args", "usage", "usage")
       ELSE Continue("args", "ok")
    /\ UNCHANGED <<durVars, argc, info, files, planVars>>

\* main, line 73
Probe ==
    /\ pc = "probe"
    /\ \E probe \in ProbeOutputs :
         LET r == get_file_info(probe)
         IN  /\ info' = probe.json
             /\ IF r.ok
                THEN /\ resolution' = <<r.val[1].resolution>>
                     /\ duration' = <<r.val[1].duration>>
                     /\ fps' = <<r.val[1].fps>>
                     /\ Continue("probe", "ok")
                ELSE /\ UNCHANGED <<resolution, duration, fps>>
                     /\ Leave("probe", "err", "error")
    /\ UNCHANGED <<durVars, argc, files, start_input, end_input, start_time,
                   end_time, framecount, start_frame, end_frame>>

\* main, lines 80-85 (prompt_user: lines 288-294)
AskStart ==
    /\ pc = "ask_start"
    /\ \E read \in ReadOutcomes, line \in TimeLines :
         IF read = "err"
         THEN /\ Leave("ask_start", "panic", "panic")
              /\ UNCHANGED <<start_input, start_time>>
         ELSE LET text == Trim(line)
                  r == IF text = <<>> THEN Ok(from_seconds(0)) ELSE from_str(text)
              IN  /\ start_input' = <<text>>
                  /\ IF r.ok
                     THEN start_time' = r.val /\ Continue("ask_start", "ok")
                     ELSE start_time' = start_time /\ Leave("ask_start", "err", "error")
    /\ UNCHANGED <<durVars, argc, info, files, resolution, duration, fps,
                   end_input, end_time, framecount, start_frame, end_frame>>

\* main, lines 87-92
AskEnd ==
    /\ pc = "ask_end"
    /\ \E read \in ReadOutcomes, line \in TimeLines :
         IF read = "err"
         THEN /\ Leave("ask_end", "panic", "panic")
              /\ UNCHANGED <<end_input, end_time>>
         ELSE LET text == Trim(line)
                  r == IF text = <<>> THEN Ok(duration[1]) ELSE from_str(text)
              IN  /\ end_input' = <<text>>
                  /\ IF r.ok
                     THEN end_time' = r.val /\ Continue("ask_end", "ok")
                     ELSE end_time' = end_time /\ Leave("ask_end", "err", "error")
    /\ UNCHANGED <<durVars, argc, info, files, resolution, duration, fps,
                   start_input, start_time, framecount, start_frame, end_frame>>

\* main, lines 94-96: the line read is never used.
AskFps ==
    /\ pc = "ask_fps"
    /\ \E read \in ReadOutcomes :
         IF read = "err"
         THEN Leave("ask_fps", "err", "error")
         ELSE Continue("ask_fps", "ok")
    /\ UNCHANGED <<durVars, argc, info, files, planVars>>

\* main, line 98
ComputeFramecount ==
    /\ pc = "framecount"
    /\ framecount' =
           <<RatMulInt(to_seconds(end_time[1]) - to_seconds(start_time[1]), fps[1])>>
    /\ Continue("framecount", "ok")
    /\ UNCHANGED <<durVars, argc, info, files, resolution, duration, fps,
                   start_input, end_input, start_time, end_time, start_frame,
                   end_frame>>

\* main, lines 100-102: the line read is never used.
AskWidth ==
    /\ pc = "ask_width"
    /\ \E read \in ReadOutcomes :
         IF read = "err"
         THEN Leave("ask_width", "err", "error")
         ELSE Continue("ask_width", "ok")
    /\ UNCHANGED <<durVars, argc, info, files, planVars>>

\* main, line 108: the result of fs::create_dir is dropped.
CreateDir ==
    /\ pc = "mkdir"
    /\ \E res \in {"ok", "exists", "err"} :
         /\ res = "exists" <=> "output_frames" \in files
         /\ files' = IF res = "ok" THEN files \cup {"output_frames"} ELSE files
         /\ Continue("mkdir", res)
    /\ UNCHANGED <<durVars, argc, info, planVars>>

\* One Command::new("ffmpeg")...output()? followed by check_command_success(..)?
\* The encoder writes `product` when it exits with status 0.
EncoderCall(step, needs, product) ==
    /\ pc = step
    /\ \E out \in {"spawn_failed", "exit0", "exit1"} :
         /\ out = "exit0" => needs \subseteq files
         /\ IF out = "spawn_failed"
            THEN files' = files /\ Leave(step, "err", "error")
            ELSE /\ files' = IF out = "exit0" THEN files \cup product ELSE files
                 /\ IF check_command_success(out).ok
                    THEN Continue(step, out)
                    ELSE Leave(step, out, "error")
    /\ UNCHANGED <<durVars, argc, info, planVars>>

\* main, lines 110-132
Thumbnails == EncoderCall("thumbnails", {"output_frames"}, {"frames"})

\* main, lines 134-142
AskStartFrame ==
    /\ pc = "ask_start_frame"
    /\ \E read \in ReadOutcomes, line \in FrameLines :
         IF read = "err"
         THEN start_frame' = start_frame /\ Leave("ask_start_frame", "err", "error")
         ELSE LET text == Trim(line)
                  r == IF text = <<>> THEN <<1>> ELSE ParseI32(text)
              IN  IF r = <<>>
                  THEN start_frame' = start_frame
                       /\ Leave("ask_start_frame", "panic", "panic")
                  ELSE start_frame' = r /\ Continue("ask_start_frame", "ok")
    /\ UNCHANGED <<durVars, argc, info, files, resolution, duration, fps,
                   start_input, end_input, start_time, end_time, framecount,
                   end_frame>>

\* main, lines 144-152
AskEndFrame ==
    /\ pc = "ask_end_frame"
    /\ \E read \in ReadOutcomes, line \in FrameLines :
         IF read = "err"
         THEN end_frame' = end_frame /\ Leave("ask_end_frame", "err", "error")
         ELSE LET text == Trim(line)
                  r == IF text = <<>> THEN framecount ELSE ParseF32(text)
              IN  IF r = <<>>
                  THEN end_frame' = end_frame
                       /\ Leave("ask_end_frame", "panic", "panic")
                  ELSE end_frame' = r /\ Continue("ask_end_frame", "ok")
    /\ UNCHANGED <<durVars, argc, info, files, resolution, duration, fps,
                   start_input, end_input, start_time, end_time, framecount,
                   start_frame>>

\* main, lines 154-177
Palette == EncoderCall("palette", {}, {"palette.png"})

\* main, lines 179-204
Encode == EncoderCall("encode", {"palette.png"}, {"output.gif"})

\* main, line 206
RemovePalette ==
    /\ pc = "rm_palette"
    /\ \E res \in {"ok", "err"} :
         /\ res = "ok" => "palette.png" \in files
         /\ IF res = "ok"
            THEN files' = files \ {"palette.png"} /\ Continue("rm_palette", "ok")
            ELSE files' = files /\ Leave("rm_palette", "err", "error")
    /\ UNCHANGED <<durVars, argc, info, planVars>>

\* A mutant of RemoveDir: the result of the removal is dropped.
RemoveDir_ResultDropped ==
    /\ pc = "rm_dir"
    /\ \E res \in {"ok", "err"} :
         /\ res = "ok" => "output_frames" \in files
         /\ files' = IF res = "ok" THEN files \ {"output_frames", "frames"} ELSE files
         /\ Continue("rm_dir", "ok")
    /\ UNCHANGED <<durVars, argc, info, planVars>>

\* main, line 207
RemoveDir ==
    /\ pc = "rm_dir"
    /\ \E res \in {"ok", "err"} :
         /\ res = "ok" => "output_frames" \in files
         /\ IF res = "ok"
            THEN files' = files \ {"output_frames", "frames"}
                 /\ Continue("rm_dir", "ok")
            ELSE files' = files /\ Leave("rm_dir", "err", "error")
    /\ UNCHANGED <<durVars, argc, info, planVars>>

\* main, lines 209-211
Report ==
    /\ pc = "report"
    /\ Leave("report", "ok", "success")
    /\ UNCHANGED <<durVars, argc, info, files, planVars>>

Next ==
    \/ CheckArgs \/ Probe \/ AskStart \/ AskEnd \/ AskFps \/ ComputeFramecount
    \/ AskWidth \/ CreateDir \/ Thumbnails \/ AskStartFrame \/ AskEndFrame
    \/ Palette \/ Encode \/ RemovePalette \/ RemoveDir \/ Report

Spec == Init /\ [][Next]_vars

(***************************************************************************)
(* Claims about the run of main                                            *)
(***************************************************************************)
Did(step) == \E i \in 1..Len(log) : log[i].step = step

LastStep == IF Len(log) = 0 THEN "none" ELSE log[Len(log)].step

EncoderCalls == SelectSeq(log, LAMBDA e : e.step \in {"thumbnails", "palette", "encode"})

Removals == SelectSeq(log, LAMBDA e : e.step \in {"rm_palette", "rm_dir"})

\* C5: the encoder calls run in the order thumbnails, palette, encode, each
\* at most once, and a call is made only when every earlier one exited with
\* status 0: after a non-zero exit no further encoder call is made.
C5_EncoderCallsInOrder ==
    LET calls == EncoderCalls
        order == <<"thumbnails", "palette", "encode">>
    IN  /\ Len(calls) <= 3
        /\ \A i \in 1..Len(calls) :
               /\ calls[i].step = order[i]
               /\ i < Len(calls) => calls[i].res = "exit0"
        /\ \A i \in 1..Len(calls) :
               calls[i].res # "exit0" => pc = "exit" /\ exit = "error"

C5_Witness ==
    /\ pc = "exit"
    /\ Len(EncoderCalls) = 2
    /\ EncoderCalls[1].res = "exit0"
    /\ EncoderCalls[2].step = "palette" /\ EncoderCalls[2].res = "exit1"

NoVideoStream ==
    /\ info # <<>>
    /\ \A i \in 1..Len(info[1].streams) : info[1].streams[i].codec_type # "video"

\* C6: when the probe output has no stream of codec type "video", the run
\* ends with an error and no encoder call is made.
C6_NoVideoNoEncode ==
    NoVideoStream =>
        /\ pc = "exit" /\ exit = "error" /\ ExitCode(exit) # 0
        /\ LastStep = "probe"
        /\ Len(EncoderCalls) = 0

C6_Witness ==
    /\ NoVideoStream
    /\ info[1].streams = <<DataStream, AudioStream>>
    /\ pc = "exit" /\ exit = "error"

\* C7: with empty start and end input, start is 0:0:0, end is the probed
\* duration and framecount is the probed duration in whole seconds times
\* the probed fps.
C7_DefaultFramecount ==
    (start_input = << <<>> >> /\ end_input = << <<>> >> /\ framecount # <<>>) =>
        /\ start_time = <<Dur(0, 0, 0)>>
        /\ end_time = duration
        /\ RatEq(framecount[1],
                 RatMulInt(info[1].format_duration[1] \div 10, fps[1]))

ThumbnailsStarted == Did("thumbnails")

PaletteStarted == Did("palette")

\* C8 as stated: every plan field is final when the first encoder call
\* starts; none is assigned after it.
C8_PlanFixedBeforeFirstCall ==
    [][ThumbnailsStarted => UNCHANGED planVars]_vars

\* C8 as amended: start, end, fps, framecount and the width are set before
\* the thumbnail call and never change after it; the frame numbers are
\* assigned after the thumbnail call has succeeded and before the palette
\* call, and no plan field changes once the palette call has been made.
C8_PlanFixedInTwoStages ==
    /\ [](ThumbnailsStarted =>
              /\ start_time # <<>> /\ end_time # <<>> /\ fps # <<>>
              /\ framecount # <<>> /\ resolution # <<>>)
    /\ [][ThumbnailsStarted =>
              UNCHANGED <<start_time, end_time, fps, framecount, resolution,
                          duration, start_input, end_input>>]_vars
    /\ [](start_frame # <<>> \/ end_frame # <<>> =>
              /\ ThumbnailsStarted
              /\ EncoderCalls[1].res = "exit0")
    /\ [](PaletteStarted => start_frame # <<>> /\ end_frame # <<>>)
    /\ [][PaletteStarted => UNCHANGED planVars]_vars
    /\ [](\A i \in 1..Len(EncoderCalls) :
              EncoderCalls[i].args[1] = EncoderArgs(EncoderCalls[i].step))

C8_Witness ==
    /\ Did("encode")
    /\ EncoderCalls[1].args[1].start_frame = <<>>
    /\ EncoderCalls[2].args[1].start_frame = <<3>>
    /\ EncoderCalls[3].args[1].start_frame = <<3>>
    /\ start_frame = <<3>>

Produced(step) ==
    CASE step = "thumbnails" -> "frames"
      [] step = "palette" -> "palette.png"
      [] step = "encode" -> "output.gif"

\* C9 as stated, second half: a run that ends with an error after the
\* working directory was created attempts no removal.
C9_NoRemovalOnError ==
    (exit \in {"error", "panic"} /\ Did("mkdir")) => Len(Removals) = 0

\* C9 as amended: a run that reports success has removed the palette image
\* and the working directory after three successful encoder calls; a run
\* that ends with an error before the cleanup begins attempts no removal
\* and what the successful calls wrote remains; a failing removal ends the
\* run with an error too, the directory removal only after the palette
\* image has been removed.
C9_CleanupPolicy ==
    /\ exit = "success" =>
           /\ Len(EncoderCalls) = 3
           /\ \A i \in 1..3 : EncoderCalls[i].res = "exit0"
           /\ Len(Removals) = 2
           /\ Removals[1].step = "rm_palette" /\ Removals[1].res = "ok"
           /\ Removals[2].step = "rm_dir" /\ Removals[2].res = "ok"
           /\ "palette.png" \notin files
           /\ "output_frames" \notin files
    /\ (exit \in {"error", "panic"} /\ LastStep \notin {"rm_palette", "rm_dir"}) =>
           /\ Len(Removals) = 0
           /\ \A i \in 1..Len(EncoderCalls) :
                  EncoderCalls[i].res = "exit0" =>
                      Produced(EncoderCalls[i].step) \in files
    /\ (exit \in {"error", "panic"} /\ LastStep = "rm_palette") =>
           /\ Len(Removals) = 1 /\ Removals[1].res = "err"
           /\ "output_frames" \in files
    /\ (exit \in {"error", "panic"} /\ LastStep = "rm_dir") =>
           /\ Len(Removals) = 2
           /\ Removals[1].step = "rm_palette" /\ Removals[1].res = "ok"
           /\ Removals[2].res = "err"
           /\ "palette.png" \notin files

C9_Witness ==
    /\ exit = "success"
    /\ Len(Removals) = 2
    /\ "output.gif" \in files

Tolerated(e) ==
    \/ e.res \in {"ok", "exit0"}
    \/ e.step = "mkdir" /\ e.res = "exists"

\* C10: a failed step is the last step of the run and the process exits
\* non-zero (a failure to create the working directory for a reason other
\* than pre-existence included); the only exit with code 0 that produces
\* no output is the usage case, which makes no probe and no encoder call.
C10_ErrorsAbort ==
    /\ \A i \in 1..Len(log) :
           ~Tolerated(log[i]) =>
               /\ i = Len(log)
               /\ pc = "exit"
               /\ ExitCode(exit) # 0 \/ (log[i].step = "args" /\ exit = "usage")
    /\ (pc = "exit" /\ ExitCode(exit) = 0) =>
           \/ exit = "success" /\ "output.gif" \in files
           \/ /\ exit = "usage" /\ argc # 2
              /\ ~Did("probe") /\ Len(EncoderCalls) = 0

====
